---- MODULE Spec2Model ----
(***************************************************************************)
(* Model of the Arduino editor extension: the boards / libraries cache-and- *)
(* fetch layer (ArduinoManager, LibraryManager), the manual cache refresh   *)
(* commands, the compile/upload subprocess runner, the board / port /       *)
(* baudrate selection commands, the library install and update action, the  *)
(* configuration manager and the status bar with its editor listeners.      *)
(*                                                                          *)
(* Every command invocation is a process of Procs.  A handler runs          *)
(* synchronously up to its next await (a subprocess callback), so one       *)
(* action is the code between two awaits.  Time is in milliseconds, as      *)
(* Date.now() and fs.Stats.mtime are.                                       *)
(***************************************************************************)
EXTENDS Integers, Sequences, FiniteSets, TLC

VARIABLES
    now,            \* Date.now()
    ticks,          \* how many times the clock has been advanced
    cacheFile,      \* dataset -> the cache file on disk
    tool,           \* what arduino-cli prints for each of its JSON commands
    proc,           \* command invocation -> its position and locals
    outputChannel,  \* the 'Arduino Cursor' output channel (a sequence of lines)
    hasWorkspace,   \* whether vscode.workspace.workspaceFolders[0] exists
    disk,           \* "ok", or "failing": every fs read, write and unlink throws
    config,         \* ConfigManager.config
    configFile,     \* the project's .arduino_config.json
    statusBar,      \* status-bar item -> whether it is shown
    event           \* the last editor event the extension has handled

\* the state of the configuration manager and of the extension's listeners
confVars == <<config, configFile, statusBar, event>>

vars == <<now, ticks, cacheFile, tool, proc, outputChannel, hasWorkspace,
          disk, confVars>>

----------------------------------------------------------------------------
(* Bounds of the model *)

\* the clock is advanced at most this many times
MaxTicks == 1

\* at most this many stdout/stderr chunks of a compile/upload subprocess are
\* appended to the output channel
MaxChunks == 1

\* of a picker's entries, the user chooses among the first MaxPick
MaxPick == 2

\* the command invocations that may be in flight together (spec section 5:
\* "two commands launched concurrently by the user")
Procs == {"c1", "c2"}

----------------------------------------------------------------------------
(* Program constants and JavaScript values *)

cacheExpiration == 7 * 24 * 60 * 60 * 1000

\* the JavaScript value undefined, where a string is expected
Undef == "undefined"

\* JavaScript truthiness of a string-or-undefined value
Truthy(s) == s # Undef /\ s # ""

Datasets == {"boards", "libraries"}

\* the key of the list inside a cache file
CacheKey(d) == IF d = "boards" THEN "boards" ELSE "libraries"

\* obj.key of a parsed JSON object: undefined when the key is absent
Get(o, k) == IF k \in DOMAIN o THEN o[k] ELSE Undef

\* the keys of an entry whose value is a boolean, never undefined
BooleanKeys == {"installed", "hasUpdate"}

\* JSON.stringify of one entry: a key whose value is undefined is dropped
StringifyEntry(o) ==
    [k \in {x \in DOMAIN o : x \in BooleanKeys \/ o[x] # Undef} |-> o[k]]

StringifyList(l) == [i \in 1..Len(l) |-> StringifyEntry(l[i])]

\* A text that JSON.parse reads: whether it parses, the one array-valued key
\* it holds ("none": no array) and that array.
Garbage == [parses |-> FALSE, key |-> "none", list |-> <<>>]
JsonNoList == [parses |-> TRUE, key |-> "none", list |-> <<>>]
JsonList(k, l) == [parses |-> TRUE, key |-> k, list |-> l]

\* data.<k> || []  of a parsed text
ListOrEmpty(text, k) == IF text.key = k THEN text.list ELSE <<>>

getCommonBoards ==
    << [label |-> "Arduino Uno", fqbn |-> "arduino:avr:uno", name |-> "Arduino Uno"],
       [label |-> "Arduino Nano", fqbn |-> "arduino:avr:nano", name |-> "Arduino Nano"],
       [label |-> "Arduino Mega", fqbn |-> "arduino:avr:mega", name |-> "Arduino Mega"],
       [label |-> "Arduino Leonardo", fqbn |-> "arduino:avr:leonardo", name |-> "Arduino Leonardo"],
       [label |-> "Arduino Micro", fqbn |-> "arduino:avr:micro", name |-> "Arduino Micro"],
       [label |-> "Arduino Pro Mini", fqbn |-> "arduino:avr:pro", name |-> "Arduino Pro Mini"],
       [label |-> "ESP32 Dev Module", fqbn |-> "esp32:esp32:esp32", name |-> "ESP32 Dev Module"],
       [label |-> "ESP32-S3 Dev Module", fqbn |-> "esp32:esp32:esp32s3", name |-> "ESP32-S3 Dev Module"],
       [label |-> "ESP8266 NodeMCU", fqbn |-> "esp8266:esp8266:nodemcuv2", name |-> "ESP8266 NodeMCU"],
       [label |-> "ESP8266 Generic", fqbn |-> "esp8266:esp8266:generic", name |-> "ESP8266 Generic"],
       [label |-> "Teensy 3.2", fqbn |-> "teensy:avr:teensy32", name |-> "Teensy 3.2"],
       [label |-> "Teensy 4.0", fqbn |-> "teensy:avr:teensy40", name |-> "Teensy 4.0"] >>

\* a last fallback that gives the static boards for either dataset
StaticListForAll(d) == getCommonBoards

\* the last fallback of a failed fetch: the static boards, no libraries
StaticList(d) == IF d = "boards" THEN getCommonBoards ELSE <<>>

----------------------------------------------------------------------------
(* The cache files *)

\* A file on disk: the text it holds (parses / key / list / timestamp), its
\* modification time, and who wrote it ("init": it was there at activation).
NoFile ==
    [exists |-> FALSE, parses |-> FALSE, key |-> "none", list |-> <<>>,
     timestamp |-> 0, mtime |-> 0, writer |-> "none"]

FileOf(text, time, who) ==
    [exists |-> TRUE, parses |-> text.parses, key |-> text.key, list |-> text.list,
     timestamp |-> time, mtime |-> time, writer |-> who]

\* what a cache load gives: null (Miss), or the list of file f
Miss == [hit |-> FALSE, list |-> <<>>, from |-> "none"]
\* a load whose empty list the caller's `if (cached)` takes for no cache
HitNonEmpty(f) == [hit |-> f.list # <<>>, list |-> f.list, from |-> f.writer]

Hit(f) == [hit |-> TRUE, list |-> f.list, from |-> f.writer]

\* Expired with the comparison inverted
ExpiredInverted(f) == now - f.mtime < cacheExpiration

\* Expired with the boundary on the wrong side
ExpiredAtBoundary(f) == now - f.mtime >= cacheExpiration

\* the expiry test of the cache load
Expired(f) == now - f.mtime > cacheExpiration

\* a cache load that does not validate the structure of the parsed JSON
loadFromCacheUnvalidated(d) ==
    LET f == cacheFile[d] IN
    IF ~f.exists THEN Miss
    ELSE IF Expired(f) THEN Miss
    ELSE IF ~f.parses THEN Miss
    ELSE Hit(f)

\* loadBoardsFromCache / loadFromCache: null (Miss) or the cached list;
\* statSync and readFileSync throw on a failing disk, and the catch block
\* returns null
loadFromCache(d) ==
    LET f == cacheFile[d] IN
    IF ~f.exists THEN Miss
    ELSE IF disk = "failing" THEN Miss
    ELSE IF Expired(f) THEN Miss
    ELSE IF ~f.parses THEN Miss
    ELSE IF f.key = CacheKey(d) THEN Hit(f)
    ELSE Miss

\* a save that writes the list under no key of the cache structure
saveToCacheUnkeyed(d, list, p) ==
    FileOf(JsonList("none", StringifyList(list)), now, p)

\* saveBoardsToCache / saveToCache: the file after invocation p has saved
\* the list; a write that throws is caught and logged to the console
saveToCache(d, list, p) ==
    IF disk = "failing"
    THEN cacheFile[d]
    ELSE FileOf(JsonList(CacheKey(d), StringifyList(list)), now, p)

\* a refresh that leaves the file in place
unlinkSkipped(d) == cacheFile

\* the unlink of refreshBoardsCache / refreshCache
unlinkCache(d) == [cacheFile EXCEPT ![d] = NoFile]

----------------------------------------------------------------------------
(* Parsing what arduino-cli prints *)

Reject == [ok |-> FALSE, value |-> <<>>]
Resolve(v) == [ok |-> TRUE, value |-> v]

BoardHasNames(b) == Truthy(Get(b, "fqbn")) /\ Truthy(Get(b, "name"))

\* boards.filter(board => board.fqbn && board.name)
FilterBoards(s) ==
    LET F[i \in 0..Len(s)] ==
            IF i = 0 THEN <<>>
            ELSE IF BoardHasNames(s[i]) THEN Append(F[i-1], s[i]) ELSE F[i-1]
    IN F[Len(s)]

BoardEntry(b) == [label |-> b.name, fqbn |-> b.fqbn, name |-> b.name]

\* getAvailableBoardsStreaming, from the exec callback on
getAvailableBoardsStreaming(error) ==
    IF error THEN Reject
    ELSE IF ~tool.boards.parses THEN Reject
    ELSE LET kept == FilterBoards(ListOrEmpty(tool.boards, "boards"))
         IN Resolve([i \in 1..Len(kept) |-> BoardEntry(kept[i])])

\* Map.set
MapSet(m, k, v) == [x \in DOMAIN m \cup {k} |-> IF x = k THEN v ELSE m[x]]
MapHas(m, k) == k \in DOMAIN m
MapGet(m, k) == IF k \in DOMAIN m THEN m[k] ELSE Undef

\* entry.library && entry.library.name
InstalledKeep(e) == Truthy(Get(e, "name"))

\* libName && latestVersion
OutdatedKeep(e) == Truthy(Get(e, "name")) /\ Truthy(Get(e, "version"))

\* a Map filled entry by entry, in order, from the entries of the installed
\* list (or, with outdated, of the outdated list) that the loop keeps
BuildMap(s, outdated) ==
    LET F[i \in 0..Len(s)] ==
            IF i = 0 THEN <<>>
            ELSE IF (IF outdated THEN OutdatedKeep(s[i]) ELSE InstalledKeep(s[i]))
                 THEN MapSet(F[i-1], Get(s[i], "name"), Get(s[i], "version"))
                 ELSE F[i-1]
    IN F[Len(s)]

\* getInstalledLibraries, from the exec callback on
getInstalledLibraries(error) ==
    IF error THEN Reject
    ELSE IF ~tool.installed.parses THEN Reject
    ELSE Resolve(BuildMap(ListOrEmpty(tool.installed, "installed_libraries"), FALSE))

\* an outdated list that rejects as the installed list does
getOutdatedLibrariesRejecting(error) ==
    IF error THEN Reject
    ELSE IF ~tool.outdated.parses THEN Reject
    ELSE Resolve(BuildMap(ListOrEmpty(tool.outdated, "libraries"), TRUE))

\* getOutdatedLibraries, from the exec callback on: it never rejects
getOutdatedLibraries(error) ==
    IF error THEN Resolve(<<>>)
    ELSE IF ~tool.outdated.parses THEN Resolve(<<>>)
    ELSE Resolve(BuildMap(ListOrEmpty(tool.outdated, "libraries"), TRUE))

\* getAvailableLibrariesStreaming, from the exec callback on
getAvailableLibrariesStreaming(error) ==
    IF error THEN Reject
    ELSE IF ~tool.search.parses THEN Reject
    ELSE LET libs == ListOrEmpty(tool.search, "libraries")
         IN Resolve([i \in 1..Len(libs) |->
                        [name |-> Get(libs[i], "name"), version |-> Get(libs[i], "version")]])

\* a Library whose update flag is read from the installed list
LibraryOfInstalledTwice(lib, installedLibs, outdatedLibs) ==
    [name |-> lib.name,
     version |-> lib.version,
     installed |-> MapHas(installedLibs, lib.name),
     hasUpdate |-> MapHas(installedLibs, lib.name),
     latestVersion |-> MapGet(outdatedLibs, lib.name)]

\* one Library of fetchLibraries' availableLibs.map
LibraryOf(lib, installedLibs, outdatedLibs) ==
    [name |-> lib.name,
     version |-> lib.version,
     installed |-> MapHas(installedLibs, lib.name),
     hasUpdate |-> MapHas(outdatedLibs, lib.name),
     latestVersion |-> MapGet(outdatedLibs, lib.name)]

JoinLibraries(availableLibs, installedLibs, outdatedLibs) ==
    [i \in 1..Len(availableLibs) |->
        LibraryOf(availableLibs[i], installedLibs, outdatedLibs)]

----------------------------------------------------------------------------
(* Command invocations *)

\* pc: "idle", then for a list or refresh command "fetching" (boards exec in
\* flight), "promiseAll" (lib list / lib outdated in flight), "searching"
\* (lib search in flight), "quickPick" (the library picker is open), "done".
\* shown: the notifications the invocation has raised.  execs / running /
\* failed: the subprocesses it has started, those still running, those that
\* ended in an error.  result: the list its list operation returned.
\* exits: how each spawned compile / upload subprocess ended; chunks: how many
\* chunks of output the running one has printed.  ports: the ports offered
\* by selectPort; library, action: the name of the library picked in the
\* library manager and what handleLibraryAction does with it; reopened: the
\* manager was opened again after that;
\* escaped: an exception has left the command.
\* Two fields keep the history the properties speak of: from, where result
\* came from ("fetch", "static", or the writer of the cache file it was read
\* from), and removed, the writer of the cache file a refresh unlinked.
ProcIdle ==
    [cmd |-> "none", pc |-> "idle", result |-> <<>>, shown |-> {},
     execs |-> {}, running |-> {}, failed |-> {},
     inst |-> "none", outd |-> "none",
     installedLibs |-> <<>>, outdatedLibs |-> <<>>,
     exits |-> <<>>, chunks |-> 0, from |-> "none", removed |-> "none",
     ports |-> <<>>, library |-> "none", action |-> "none", reopened |-> FALSE,
     escaped |-> FALSE]

\* an exception that leaves the command: the host sees its promise reject
Rethrow(r, note) == [r EXCEPT !.escaped = TRUE]

\* the catch block of a command: it raises its error notification
Catch(r, note) == [r EXCEPT !.shown = @ \cup {note}]

DatasetOf(cmd) ==
    IF cmd \in {"listBoards", "refreshBoardsCache", "selectBoard", "gui"}
    THEN "boards" ELSE "libraries"

Line(t) == [line |-> t, n |-> 0, names |-> <<>>]

\* the two lines listBoards writes
BoardLines(boards) ==
    << [line |-> "Available Arduino Boards (n total):", n |-> Len(boards), names |-> <<>>],
       [line |-> "boardList", n |-> 0,
        names |-> [i \in 1..Len(boards) |-> <<Get(boards[i], "name"), Get(boards[i], "fqbn")>>]] >>

\* selectPort up to the await of getAvailablePorts, which starts `board list`
StartPorts(r) ==
    [r EXCEPT !.pc = "ports", !.shown = @ \cup {"DetectingPorts"},
              !.execs = @ \cup {"board list"},
              !.running = @ \cup {"board list"}]

\* the invocation once selectBoard has returned: gui goes on to selectPort
AfterSelectBoard(r) ==
    IF r.cmd = "gui" THEN StartPorts(r) ELSE [r EXCEPT !.pc = "done"]

\* The command from the point where its list operation (getAvailableBoards,
\* getLibraries, fetchBoards, fetchLibraries) has returned `list`; r is the
\* invocation's record so far.
Complete(p, r, list, from) ==
    LET q == [r EXCEPT !.result = list, !.from = from] IN
    CASE r.cmd = "listBoards" ->
            /\ proc' = [proc EXCEPT ![p] = [q EXCEPT !.pc = "done"]]
            /\ outputChannel' = BoardLines(list)
      [] r.cmd = "openLibraryManager" ->
            /\ proc' = [proc EXCEPT ![p] =
                    IF Len(list) = 0
                    THEN [q EXCEPT !.pc = "done", !.shown = @ \cup {"NoLibrariesFound"}]
                    ELSE [q EXCEPT !.pc = "quickPick"]]
            /\ UNCHANGED outputChannel
      [] r.cmd \in {"selectBoard", "gui"} ->
            /\ proc' = [proc EXCEPT ![p] =
                    IF Len(list) = 0
                    THEN AfterSelectBoard([q EXCEPT !.shown = @ \cup {"NoBoardsFound"}])
                    ELSE [q EXCEPT !.pc = "quickPick"]]
            /\ UNCHANGED outputChannel
      [] OTHER ->
            /\ proc' = [proc EXCEPT ![p] =
                    [q EXCEPT !.pc = "done", !.shown = @ \cup {"RefreshedSuccessfully"}]]
            /\ UNCHANGED outputChannel

\* the invocation's record as fetchBoards / fetchLibraries starts its
\* subprocesses
StartFetch(r, d) ==
    IF d = "boards"
    THEN [r EXCEPT !.pc = "fetching", !.shown = @ \cup {"Fetching"},
                   !.execs = @ \cup {"board listall"},
                   !.running = @ \cup {"board listall"}]
    ELSE [r EXCEPT !.pc = "promiseAll", !.shown = @ \cup {"Fetching"},
                   !.execs = @ \cup {"lib list", "lib outdated"},
                   !.running = @ \cup {"lib list", "lib outdated"},
                   !.inst = "pending", !.outd = "pending"]

\* the catch block of fetchBoards / fetchLibraries: the list it returns
\* and the notifications it raises
fetchFallback(d) ==
    LET cached == loadFromCache(d) IN
    IF cached.hit
    THEN [list |-> cached.list, from |-> cached.from,
          shown |-> {"ErrorFetching", "LoadingFromCache", "UsingCached"}]
    ELSE [list |-> StaticList(d), from |-> "static", shown |-> {"ErrorFetching"}]

\* fetchBoards / fetchLibraries from the point where the live fetch has
\* settled with res; r is the invocation's record so far
FetchSettled(p, r, d, res) ==
    IF res.ok
    THEN /\ cacheFile' = [cacheFile EXCEPT ![d] = saveToCache(d, res.value, p)]
         /\ Complete(p, r, res.value, "fetch")
    ELSE LET fb == fetchFallback(d) IN
         /\ UNCHANGED cacheFile
         /\ Complete(p, [r EXCEPT !.shown = @ \cup fb.shown], fb.list, fb.from)

\* getAvailableBoards / getLibraries called by command cmd of an invocation
\* whose record so far is r0
GetListFrom(p, r0, cmd) ==
    LET d == DatasetOf(cmd)
        r == [r0 EXCEPT !.cmd = cmd]
        cached == loadFromCache(d)
    IN IF cached.hit
       THEN /\ Complete(p, [r EXCEPT !.shown = @ \cup {"LoadingFromCache"}],
                        cached.list, cached.from)
            /\ UNCHANGED cacheFile
       ELSE /\ proc' = [proc EXCEPT ![p] = StartFetch(r, d)]
            /\ UNCHANGED <<cacheFile, outputChannel>>

GetList(p, cmd) == GetListFrom(p, proc[p], cmd)

\* listBoards, up to the await of the boards exec
ListBoards(p) ==
    /\ proc[p].pc = "idle"
    /\ GetList(p, "listBoards")
    /\ UNCHANGED <<now, ticks, tool, hasWorkspace, disk, confVars>>

\* openLibraryManager, up to the await of the first execs or of the picker
OpenLibraryManager(p) ==
    /\ proc[p].pc = "idle"
    /\ GetList(p, "openLibraryManager")
    /\ UNCHANGED <<now, ticks, tool, hasWorkspace, disk, confVars>>

\* refreshBoardsCache / refreshCache, up to the await of the first execs;
\* an unlinkSync that throws is caught by the command, which ends there
Refresh(p, cmd) ==
    LET d == DatasetOf(cmd)
        r == [proc[p] EXCEPT !.cmd = cmd, !.shown = @ \cup {"Refreshing"}]
    IN /\ proc[p].pc = "idle"
       /\ IF cacheFile[d].exists /\ disk = "failing"
          THEN /\ UNCHANGED cacheFile
               /\ proc' = [proc EXCEPT ![p] =
                       Catch([r EXCEPT !.pc = "done"], "ErrorRefreshing")]
          ELSE /\ cacheFile' = unlinkCache(d)
               /\ proc' = [proc EXCEPT ![p] =
                       StartFetch([r EXCEPT !.removed = cacheFile[d].writer], d)]
       /\ UNCHANGED <<now, ticks, tool, outputChannel, hasWorkspace, disk, confVars>>

RefreshBoardsCache(p) == Refresh(p, "refreshBoardsCache")

RefreshCache(p) == Refresh(p, "refreshCache")

\* a callback that leaves its subprocess among the running ones
EndedStillRunning(r, exec, error) ==
    [r EXCEPT !.failed = IF error THEN @ \cup {exec} ELSE @]

\* the record of an invocation one of whose subprocesses has called back
Ended(r, exec, error) ==
    [r EXCEPT !.running = @ \ {exec},
              !.failed = IF error THEN @ \cup {exec} ELSE @]

\* the callback of `board listall`, and fetchBoards after it
BoardsExecDone(p, error) ==
    /\ proc[p].pc = "fetching"
    /\ FetchSettled(p, Ended(proc[p], "board listall", error), "boards",
                    getAvailableBoardsStreaming(error))
    /\ UNCHANGED <<now, ticks, tool, hasWorkspace, disk, confVars>>

\* fetchLibraries once Promise.all has resolved: lib search is started
StartSearch(r) ==
    [r EXCEPT !.pc = "searching",
              !.execs = @ \cup {"lib search"},
              !.running = @ \cup {"lib search"}]

\* the callback of `lib list`; Promise.all rejects as soon as it rejects
InstalledDone(p, error) ==
    LET res == getInstalledLibraries(error)
        r == Ended(proc[p], "lib list", error)
    IN /\ proc[p].pc = "promiseAll"
       /\ proc[p].inst = "pending"
       /\ IF ~res.ok
          THEN FetchSettled(p, [r EXCEPT !.inst = "rejected"], "libraries", Reject)
          ELSE LET q == [r EXCEPT !.inst = "resolved", !.installedLibs = res.value] IN
               /\ proc' = [proc EXCEPT ![p] =
                              IF q.outd = "resolved" THEN StartSearch(q) ELSE q]
               /\ UNCHANGED <<cacheFile, outputChannel>>
       /\ UNCHANGED <<now, ticks, tool, hasWorkspace, disk, confVars>>

\* the callback of `lib outdated`; it may come after Promise.all has
\* rejected and the command has gone on.  Promise.all would reject on a
\* rejection of getOutdatedLibraries as it does on one of
\* getInstalledLibraries.
OutdatedDone(p, error) ==
    LET res == getOutdatedLibraries(error)
        e == Ended(proc[p], "lib outdated", error)
        r == [e EXCEPT !.outd = "resolved"]
    IN /\ proc[p].outd = "pending"
       /\ IF e.pc = "promiseAll" /\ ~res.ok
          THEN FetchSettled(p, [e EXCEPT !.outd = "rejected"], "libraries", Reject)
          ELSE /\ proc' = [proc EXCEPT ![p] =
                      IF r.pc = "promiseAll"
                      THEN LET q == [r EXCEPT !.outdatedLibs = res.value] IN
                           IF q.inst = "resolved" THEN StartSearch(q) ELSE q
                      ELSE r]
               /\ UNCHANGED <<cacheFile, outputChannel>>
       /\ UNCHANGED <<now, ticks, tool, hasWorkspace, disk, confVars>>

\* the callback of `lib search`, and fetchLibraries after it
SearchDone(p, error) ==
    LET res == getAvailableLibrariesStreaming(error)
        r == Ended(proc[p], "lib search", error)
    IN /\ proc[p].pc = "searching"
       /\ FetchSettled(p, r, "libraries",
             IF res.ok
             THEN Resolve(JoinLibraries(res.value, r.installedLibs, r.outdatedLibs))
             ELSE Reject)
       /\ UNCHANGED <<now, ticks, tool, hasWorkspace, disk, confVars>>

\* time passes
TickSteps == {1, cacheExpiration, cacheExpiration + 1}

Tick(step) ==
    /\ ticks < MaxTicks
    /\ ticks' = ticks + 1
    /\ now' = now + step
    /\ UNCHANGED <<cacheFile, tool, proc, outputChannel, hasWorkspace, disk, confVars>>

----------------------------------------------------------------------------
(* upload, check and the subprocess runner *)

\* the largest exit code a compile / upload subprocess ends with
MaxExitCode == 2

ExitCodes == 0..MaxExitCode

\* a 'close' handler that also resolves on exit code 1
ExitOkBelowTwo(code) == code < 2

\* a 'close' handler that resolves on every exit code
ExitAlwaysOk(code) == code \in ExitCodes

\* runCommand's 'close' handler: code === 0 resolves, anything else rejects
ExitOk(code) == code = 0

\* the record of an invocation that spawns `exec` through runCommand
Spawn(r, exec, pc) ==
    [r EXCEPT !.pc = pc, !.execs = @ \cup {exec}, !.running = @ \cup {exec},
              !.chunks = 0]

\* the subprocess an invocation is awaiting
Awaited(r) == IF r.pc = "uploading" THEN "upload" ELSE "compile"

\* the catch block of upload / check
CommandFailed(p, r, errorLine) ==
    /\ outputChannel' = Append(outputChannel, errorLine)
    /\ proc' = [proc EXCEPT ![p] =
            Catch([r EXCEPT !.pc = "done"],
                  IF r.cmd = "upload" THEN "UploadFailed" ELSE "CheckFailed")]

\* upload / check after the awaited runCommand has resolved
CommandStepOk(p, r) ==
    CASE r.pc = "compiling" ->
            /\ outputChannel' = Append(outputChannel, Line("--- Uploading to Arduino ---"))
            /\ proc' = [proc EXCEPT ![p] = Spawn(r, "upload", "uploading")]
      [] r.pc = "uploading" ->
            /\ outputChannel' = Append(outputChannel, Line("--- Upload Complete ---"))
            /\ proc' = [proc EXCEPT ![p] =
                    [r EXCEPT !.pc = "done", !.shown = @ \cup {"UploadCompleted"}]]
      [] OTHER ->
            /\ outputChannel' = Append(outputChannel, Line("--- Code checked successfully ---"))
            /\ proc' = [proc EXCEPT ![p] =
                    [r EXCEPT !.pc = "done", !.shown = @ \cup {"CheckCompleted"}]]

\* an upload that does not test the workspace folder
UploadUnguarded(p) ==
    /\ proc[p].pc = "idle"
    /\ outputChannel' = << Line("--- Compiling Arduino sketch ---") >>
    /\ proc' = [proc EXCEPT ![p] =
            Spawn([proc[p] EXCEPT !.cmd = "upload"], "compile", "compiling")]
    /\ UNCHANGED <<now, ticks, cacheFile, tool, hasWorkspace, disk, confVars>>

\* upload, up to the await of the compile subprocess
Upload(p) ==
    LET r == [proc[p] EXCEPT !.cmd = "upload"] IN
    /\ proc[p].pc = "idle"
    /\ IF ~hasWorkspace
       THEN /\ proc' = [proc EXCEPT ![p] =
                    [r EXCEPT !.pc = "done", !.shown = @ \cup {"NoWorkspace"}]]
            /\ UNCHANGED outputChannel
       ELSE /\ outputChannel' = << Line("--- Compiling Arduino sketch ---") >>
            /\ proc' = [proc EXCEPT ![p] = Spawn(r, "compile", "compiling")]
    /\ UNCHANGED <<now, ticks, cacheFile, tool, hasWorkspace, disk, confVars>>

\* check, up to the await of the compile subprocess
Check(p) ==
    LET r == [proc[p] EXCEPT !.cmd = "check"] IN
    /\ proc[p].pc = "idle"
    /\ IF ~hasWorkspace
       THEN /\ proc' = [proc EXCEPT ![p] =
                    [r EXCEPT !.pc = "done", !.shown = @ \cup {"NoWorkspace"}]]
            /\ UNCHANGED outputChannel
       ELSE /\ outputChannel' = << Line("--- Checking Arduino code ---") >>
            /\ proc' = [proc EXCEPT ![p] = Spawn(r, "compile", "checking")]
    /\ UNCHANGED <<now, ticks, cacheFile, tool, hasWorkspace, disk, confVars>>

SpawnPcs == {"compiling", "uploading", "checking"}

\* runCommand's stdout / stderr 'data' handlers
ChildData(p) ==
    /\ proc[p].pc \in SpawnPcs
    /\ proc[p].chunks < MaxChunks
    /\ outputChannel' = Append(outputChannel, Line("data"))
    /\ proc' = [proc EXCEPT ![p].chunks = @ + 1]
    /\ UNCHANGED <<now, ticks, cacheFile, tool, hasWorkspace, disk, confVars>>

\* runCommand's 'close' handler, and the command after it
ChildClose(p, code) ==
    LET exec == Awaited(proc[p])
        r == [proc[p] EXCEPT !.running = @ \ {exec},
                             !.exits = MapSet(@, exec, [event |-> "close", code |-> code])]
    IN /\ proc[p].pc \in SpawnPcs
       /\ IF ExitOk(code)
          THEN CommandStepOk(p, r)
          ELSE CommandFailed(p, r,
                  [line |-> "Error: Command failed with exit code", n |-> code, names |-> <<>>])
       /\ UNCHANGED <<now, ticks, cacheFile, tool, hasWorkspace, disk, confVars>>

\* runCommand's 'error' handler (the subprocess could not be spawned), and
\* the command after it
ChildError(p) ==
    LET exec == Awaited(proc[p])
        r == [proc[p] EXCEPT !.running = @ \ {exec},
                             !.exits = MapSet(@, exec, [event |-> "error", code |-> 0])]
    IN /\ proc[p].pc \in SpawnPcs
       /\ CommandFailed(p, r, Line("Error: spawn error"))
       /\ UNCHANGED <<now, ticks, cacheFile, tool, hasWorkspace, disk, confVars>>

----------------------------------------------------------------------------
(* The configuration manager *)

\* The JSON / JavaScript values a property of the configuration may hold.
\* Numbers are integers here; NaN is a number of its own.
JStr(s) == [t |-> "string", s |-> s, n |-> 0]
JNum(n) == [t |-> "number", s |-> "", n |-> n]
JNaN == [t |-> "NaN", s |-> "", n |-> 0]
JNull == [t |-> "null", s |-> "", n |-> 0]
JUndef == [t |-> "undefined", s |-> "", n |-> 0]

\* JavaScript truthiness of such a value
JsTruthy(x) ==
    CASE x.t = "string" -> x.s # ""
      [] x.t = "number" -> x.n # 0
      [] OTHER -> FALSE

\* a ?? b
JsNullish(a, b) == IF a.t \in {"null", "undefined"} THEN b ELSE a

\* a || b
JsOr(a, b) == IF JsTruthy(a) THEN a ELSE b

ConfigKeys == {"board", "port", "baudrate"}

\* the configuration the constructor starts from: the settings' defaults
DefaultConfig ==
    [board |-> JStr("arduino:avr:uno"), port |-> JStr("/dev/ttyACM0"),
     baudrate |-> JNum(115200)]

\* The configuration file: whether it exists, what JSON.parse makes of its
\* text ("error": it throws; "null"; "object") and the properties of the
\* parsed object.
NoConfigFile == [exists |-> FALSE, parsed |-> "error", content |-> <<>>]

ConfigText(parsed, content) == [exists |-> TRUE, parsed |-> parsed, content |-> content]

\* loadedConfig.<k>
Prop(content, k) == IF k \in DOMAIN content THEN content[k] ELSE JUndef

\* JSON.stringify(this.config): a property whose value is undefined is
\* dropped, NaN is written as null
StringifyConfig(cfg) ==
    [k \in {x \in DOMAIN cfg : cfg[x].t # "undefined"} |->
        IF cfg[k].t = "NaN" THEN JNull ELSE cfg[k]]

\* a save that writes the board only
saveBoardOnly(cfg, file) ==
    [file |-> ConfigText("object", [k \in {"board"} |-> cfg[k]]), shown |-> {}]

\* saveConfig: the file after it and the notification it raises
saveConfig(cfg, file) ==
    IF disk = "failing"
    THEN [file |-> file, shown |-> {"ErrorSavingConfig"}]
    ELSE [file |-> ConfigText("object", StringifyConfig(cfg)), shown |-> {}]

\* createDefaultConfig
createDefaultConfig(cfg, file) ==
    LET saved == saveConfig(cfg, file) IN
    [file |-> saved.file, shown |-> {"ConfigNotFound"} \cup saved.shown]

\* loadConfig: the configuration and the file after it, and the
\* notifications it raises.  readFileSync throws on a failing disk,
\* JSON.parse on a text that is not JSON, and the read of loadedConfig.board
\* on a text that parses to null.
loadConfig(cfg, file) ==
    IF ~file.exists
    THEN LET created == createDefaultConfig(cfg, file) IN
         [config |-> cfg, file |-> created.file, shown |-> created.shown]
    ELSE IF disk = "failing" \/ file.parsed \in {"error", "null"}
    THEN LET created == createDefaultConfig(cfg, file) IN
         [config |-> cfg, file |-> created.file,
          shown |-> {"ErrorLoadingConfig"} \cup created.shown]
    ELSE [config |-> [k \in ConfigKeys |-> JsOr(Prop(file.content, k), cfg[k])],
          file |-> file, shown |-> {"ConfigLoaded"}]

\* String.prototype.trim on the strings of the model
Trim(s) ==
    CASE s = " arduino:sam:due " -> "arduino:sam:due"
      [] s = "COM3 " -> "COM3"
      [] OTHER -> s

\* setBoard / setPort with argument v, a string or undefined: v.trim()
\* throws on undefined, before the configuration is touched
setString(cfg, file, k, v) ==
    IF v = Undef
    THEN [threw |-> TRUE, config |-> cfg, file |-> file, shown |-> {}]
    ELSE LET c == [cfg EXCEPT ![k] = JStr(Trim(v))]
             saved == saveConfig(c, file)
         IN [threw |-> FALSE, config |-> c, file |-> saved.file,
             shown |-> saved.shown \cup {IF k = "board" THEN "BoardSet" ELSE "PortSet"}]

setBoard(cfg, file, board) == setString(cfg, file, "board", board)

setPort(cfg, file, port) == setString(cfg, file, "port", port)

\* setBaudrate of the configuration manager, with a number (or NaN)
setBaudrate(cfg, file, baudrate) ==
    LET c == [cfg EXCEPT !.baudrate = baudrate]
        saved == saveConfig(c, file)
    IN [threw |-> FALSE, config |-> c, file |-> saved.file,
        shown |-> saved.shown \cup {"BaudrateSet"}]

\* what the user may type in the baudrate prompt
PromptInputs == {"9600", "9600 baud", "0", "-9600", "fast", ""}

\* parseInt on those texts
parseInt(s) ==
    CASE s = "9600" -> JNum(9600)
      [] s = "9600 baud" -> JNum(9600)
      [] s = "0" -> JNum(0)
      [] s = "-9600" -> JNum(0 - 9600)
      [] OTHER -> JNaN

\* validateInput of the baudrate prompt: TRUE when it returns null
validateInput(value) ==
    LET num == parseInt(value) IN ~(num.t = "NaN" \/ num.n <= 0)

----------------------------------------------------------------------------
(* selectBoard, selectPort, gui, setBaudrate *)

\* selectBoard, up to the await of the boards exec or of the picker
SelectBoard(p) ==
    /\ proc[p].pc = "idle"
    /\ GetList(p, "selectBoard")
    /\ UNCHANGED <<now, ticks, tool, hasWorkspace, disk, confVars>>

\* gui, up to the first await of its selectBoard
Gui(p) ==
    /\ proc[p].pc = "idle"
    /\ GetList(p, "gui")
    /\ UNCHANGED <<now, ticks, tool, hasWorkspace, disk, confVars>>

\* the entries of a picker the user chooses among: the first MaxPick of list
Choices(list) == 1..(IF Len(list) < MaxPick THEN Len(list) ELSE MaxPick)

\* the board picker resolves, with entry i of the list or (i = 0) dismissed,
\* and selectBoard runs to its end; a throw of setBoard is caught there
PickBoard(p, i) ==
    LET r == proc[p]
        set == setBoard(config, configFile, Get(r.result[i], "fqbn"))
    IN /\ r.pc = "quickPick"
       /\ r.cmd \in {"selectBoard", "gui"}
       /\ i \in {0} \cup Choices(r.result)
       /\ IF i = 0
          THEN /\ proc' = [proc EXCEPT ![p] = AfterSelectBoard(r)]
               /\ UNCHANGED <<config, configFile>>
          ELSE /\ config' = set.config
               /\ configFile' = set.file
               /\ proc' = [proc EXCEPT ![p] = AfterSelectBoard(
                       IF set.threw THEN Catch(r, "ErrorSelectingBoard")
                       ELSE [r EXCEPT !.shown = @ \cup set.shown])]
       /\ UNCHANGED <<now, ticks, cacheFile, tool, outputChannel, hasWorkspace,
                      disk, statusBar, event>>

\* selectPort, up to the await of getAvailablePorts
SelectPort(p) ==
    /\ proc[p].pc = "idle"
    /\ proc' = [proc EXCEPT ![p] = StartPorts([proc[p] EXCEPT !.cmd = "selectPort"])]
    /\ UNCHANGED <<now, ticks, cacheFile, tool, outputChannel, hasWorkspace,
                   disk, confVars>>

getCommonPorts ==
    << "COM1", "COM3", "COM4", "COM5", "COM6", "COM7", "COM8", "COM9", "COM10",
       "/dev/ttyACM0", "/dev/ttyACM1", "/dev/ttyUSB0", "/dev/ttyUSB1",
       "/dev/cu.usbmodem*", "/dev/cu.usbserial*" >>

\* the characters \s matches, of those the lines below are made of
Whitespace == {" ", "\t", "\r"}

\* line.match(/^prefix/): the line starts with the literal text
StartsWith(line, prefix) ==
    /\ Len(line) >= Len(prefix)
    /\ SubSeq(line, 1, Len(prefix)) = prefix

\* line.match(/^(\S+)/)?.[1]: the longest run of non-blank characters the
\* line starts with, "" (for undefined) when the line starts with a blank
\* or is empty
FirstToken(line) ==
    LET F[i \in 0..Len(line)] ==
            IF i = Len(line) THEN i
            ELSE IF SubSeq(line, i + 1, i + 1) \in Whitespace THEN i
            ELSE F[i + 1]
    IN SubSeq(line, 1, F[0])

\* A line of what `board list` prints: its text, the token /^(\S+)/ finds
\* in it, and whether it starts with /dev/tty or COM.
PortLine(text) ==
    [text |-> text,
     token |-> FirstToken(text),
     matches |-> StartsWith(text, "/dev/tty") \/ StartsWith(text, "COM")]

\* stdout.split('\n') of what `board list` may print
PortOutputs ==
    { << PortLine("") >>,
      << PortLine("Port Protocol Type"),
         PortLine("/dev/cu.usbmodem14101 serial"),
         PortLine(" /dev/ttyS0 serial"),
         PortLine("") >>,
      << PortLine("Port\tProtocol\r"),
         PortLine("/dev/ttyUSB0 serial Serial Port (USB)"),
         PortLine("port COM7"),
         PortLine("COM3\r"),
         PortLine("") >> }

\* the loop of getAvailablePorts over the lines
PortsOf(lines) ==
    LET F[i \in 0..Len(lines)] ==
            IF i = 0 THEN <<>>
            ELSE IF lines[i].matches /\ lines[i].token # ""
                 THEN Append(F[i-1], lines[i].token)
                 ELSE F[i-1]
    IN F[Len(lines)]

\* a port listing that resolves whatever the lines hold, with no fallback
getPortsNoFallback(error, stdout) ==
    IF error THEN getCommonPorts ELSE PortsOf(stdout)

\* getAvailablePorts, from the exec callback on: it resolves in every case
getAvailablePorts(error, stdout) ==
    IF error THEN getCommonPorts
    ELSE IF Len(PortsOf(stdout)) = 0 THEN getCommonPorts
    ELSE PortsOf(stdout)

\* The callback of `board list`, and selectPort after it up to the await of
\* the picker.  After the 10 s timer has rejected, the callback only clears
\* the timer.
PortsExecDone(p, error, stdout) ==
    LET r == Ended(proc[p], "board list", error)
        ports == getAvailablePorts(error, stdout)
    IN /\ "board list" \in proc[p].running
       /\ proc' = [proc EXCEPT ![p] =
              IF r.pc # "ports" THEN r
              ELSE IF Len(ports) = 0
              THEN [r EXCEPT !.pc = "done", !.shown = @ \cup {"NoPortsFound"}]
              ELSE [r EXCEPT !.pc = "quickPickPort", !.ports = ports]]
       /\ UNCHANGED <<now, ticks, cacheFile, tool, outputChannel, hasWorkspace,
                      disk, confVars>>

\* the 10 s timer of getAvailablePorts fires before the exec has called
\* back: the promise rejects and selectPort's catch reports it
PortsTimeout(p) ==
    /\ proc[p].pc = "ports"
    /\ proc' = [proc EXCEPT ![p] =
           Catch([proc[p] EXCEPT !.pc = "done"], "ErrorGettingPorts")]
    /\ UNCHANGED <<now, ticks, cacheFile, tool, outputChannel, hasWorkspace,
                   disk, confVars>>

\* the port picker resolves, with port i or (i = 0) dismissed
PickPort(p, i) ==
    LET r == proc[p]
        set == setPort(config, configFile, r.ports[i])
    IN /\ r.pc = "quickPickPort"
       /\ i \in {0} \cup Choices(r.ports)
       /\ IF i = 0
          THEN /\ proc' = [proc EXCEPT ![p] = [r EXCEPT !.pc = "done"]]
               /\ UNCHANGED <<config, configFile>>
          ELSE /\ config' = set.config
               /\ configFile' = set.file
               /\ proc' = [proc EXCEPT ![p] =
                       IF set.threw THEN Catch([r EXCEPT !.pc = "done"], "ErrorGettingPorts")
                       ELSE [r EXCEPT !.pc = "done", !.shown = @ \cup set.shown]]
       /\ UNCHANGED <<now, ticks, cacheFile, tool, outputChannel, hasWorkspace,
                      disk, statusBar, event>>

\* the setBaudrate command, up to the await of the input box
SetBaudrate(p) ==
    /\ proc[p].pc = "idle"
    /\ proc' = [proc EXCEPT ![p] = [proc[p] EXCEPT !.cmd = "setBaudrate", !.pc = "inputBox"]]
    /\ UNCHANGED <<now, ticks, cacheFile, tool, outputChannel, hasWorkspace,
                   disk, confVars>>

\* The input box resolves: with undefined when it is dismissed, else with a
\* text that validateInput has accepted (the box does not let any other
\* through).  An empty text is falsy and sets nothing.
BaudrateEntered(p, input) ==
    LET r == proc[p]
        set == setBaudrate(config, configFile, parseInt(input))
    IN /\ r.pc = "inputBox"
       /\ input = Undef \/ validateInput(input)
       /\ IF Truthy(input)
          THEN /\ config' = set.config
               /\ configFile' = set.file
               /\ proc' = [proc EXCEPT ![p] =
                       [r EXCEPT !.pc = "done", !.shown = @ \cup set.shown]]
          ELSE /\ proc' = [proc EXCEPT ![p] = [r EXCEPT !.pc = "done"]]
               /\ UNCHANGED <<config, configFile>>
       /\ UNCHANGED <<now, ticks, cacheFile, tool, outputChannel, hasWorkspace,
                      disk, statusBar, event>>

\* the host drops the record of an invocation that has ended
Returned(p) ==
    /\ proc[p].pc = "done"
    /\ proc[p].running = {}
    /\ proc' = [proc EXCEPT ![p] = ProcIdle]
    /\ UNCHANGED <<now, ticks, cacheFile, tool, outputChannel, hasWorkspace,
                   disk, confVars>>

----------------------------------------------------------------------------
(* The library picker and handleLibraryAction *)

\* library.installed ? (library.hasUpdate ? 'update' : 'reinstall') : 'install'
ActionOf(library) ==
    IF library.installed
    THEN (IF library.hasUpdate THEN "update" ELSE "reinstall")
    ELSE "install"

\* the library picker resolves, with entry i of the list or (i = 0)
\* dismissed; handleLibraryAction runs up to the await of `lib install`
PickLibrary(p, i) ==
    LET r == proc[p]
        library == r.result[i]
    IN /\ r.pc = "quickPick"
       /\ r.cmd = "openLibraryManager"
       /\ i \in {0} \cup Choices(r.result)
       /\ proc' = [proc EXCEPT ![p] =
              IF i = 0 THEN [r EXCEPT !.pc = "done"]
              ELSE [r EXCEPT !.pc = "installing",
                             !.library = Get(library, "name"),
                             !.action = ActionOf(library),
                             !.reopened = FALSE,
                             !.shown = @ \cup {IF ActionOf(library) = "update"
                                               THEN "Updating" ELSE "Installing"},
                             !.execs = @ \cup {"lib install"},
                             !.running = @ \cup {"lib install"}]]
       /\ UNCHANGED <<now, ticks, cacheFile, tool, outputChannel, hasWorkspace,
                      disk, confVars>>

\* the installed list once `lib install name` has succeeded: name is on it,
\* at the version the index offers
InstalledAfter(list, name) ==
    LET at == {j \in 1..Len(ListOrEmpty(tool.search, "libraries")) : Get(ListOrEmpty(tool.search, "libraries")[j], "name") = name}
        version == IF at = {} THEN Undef
                   ELSE Get(ListOrEmpty(tool.search, "libraries")[CHOOSE j \in at : TRUE], "version")
        entry == [name |-> name, version |-> version]
    IN IF \E j \in 1..Len(list) : Get(list[j], "name") = name
       THEN [j \in 1..Len(list) |-> IF Get(list[j], "name") = name THEN entry ELSE list[j]]
       ELSE Append(list, entry)

\* list without the entries that name `name`
Without(list, name) ==
    LET F[i \in 0..Len(list)] ==
            IF i = 0 THEN <<>>
            ELSE IF Get(list[i], "name") = name THEN F[i-1] ELSE Append(F[i-1], list[i])
    IN F[Len(list)]

\* what arduino-cli prints once `lib install name` has succeeded: the
\* library is installed and no longer outdated
Install(world, name) ==
    [world EXCEPT
        !.installed = IF @.key = "installed_libraries"
                      THEN JsonList(@.key, InstalledAfter(@.list, name)) ELSE @,
        !.outdated = IF @.key = "libraries"
                     THEN JsonList(@.key, Without(@.list, name)) ELSE @]

\* The callback of `lib install`, and handleLibraryAction after it: on
\* success it opens the library manager again without awaiting it, and that
\* call runs up to its first await.
InstallDone(p, error) ==
    LET r == Ended(proc[p], "lib install", error) IN
    /\ proc[p].pc = "installing"
    /\ IF error
       THEN /\ proc' = [proc EXCEPT ![p] = Catch([r EXCEPT !.pc = "done"], "ActionFailed")]
            /\ UNCHANGED <<cacheFile, tool, outputChannel>>
       ELSE /\ tool' = Install(tool, r.library)
            /\ GetListFrom(p, [r EXCEPT !.shown = @ \cup {"ActionSucceeded"},
                                        !.reopened = TRUE],
                           "openLibraryManager")
    /\ UNCHANGED <<now, ticks, hasWorkspace, disk, confVars>>

\* the disk starts or stops failing
DiskFault ==
    /\ disk' = IF disk = "ok" THEN "failing" ELSE "ok"
    /\ UNCHANGED <<now, ticks, cacheFile, tool, proc, outputChannel, hasWorkspace,
                   confVars>>

----------------------------------------------------------------------------
(* The status bar and the editor listeners *)

StatusBarItems ==
    {"upload", "check", "monitor", "status", "board", "port", "libraries", "gui"}

\* a visibility update that leaves the last item created as it is
updateAllButOne(visible) ==
    [i \in StatusBarItems |-> IF i = "gui" THEN TRUE ELSE visible]

\* updateStatusBarVisibility: show() or hide() on every item
updateStatusBarVisibility(visible) == [i \in StatusBarItems |-> visible]

\* createStatusBarItems: every item is created and shown, then all are hidden
createStatusBarItems == updateStatusBarVisibility(FALSE)

\* a text document: its language id and whether its file name ends in .ino
Docs == [languageId : {"arduino", "cpp"}, ino : BOOLEAN]

\* no active editor (the listener is called with undefined)
NoEditor == [languageId |-> "none", ino |-> FALSE]

\* document.languageId === 'arduino' || document.fileName.endsWith('.ino')
IsArduino(doc) == doc.languageId = "arduino" \/ doc.ino

\* event: the listener that ran last, and its argument
Activated == [kind |-> "activate", doc |-> NoEditor]

\* the onDidOpenTextDocument listener
OpenTextDocument(doc) ==
    LET loaded == loadConfig(config, configFile) IN
    /\ IF IsArduino(doc)
       THEN /\ config' = loaded.config
            /\ configFile' = loaded.file
            /\ statusBar' = updateStatusBarVisibility(TRUE)
       ELSE UNCHANGED <<config, configFile, statusBar>>
    /\ event' = [kind |-> "open", doc |-> doc]
    /\ UNCHANGED <<now, ticks, cacheFile, tool, proc, outputChannel, hasWorkspace, disk>>

\* the onDidChangeActiveTextEditor listener
ChangeActiveTextEditor(editor) ==
    /\ statusBar' = updateStatusBarVisibility(editor # NoEditor /\ IsArduino(editor))
    /\ event' = [kind |-> "activeEditor", doc |-> editor]
    /\ UNCHANGED <<now, ticks, cacheFile, tool, proc, outputChannel, hasWorkspace,
                   disk, config, configFile>>

\* the texts the project's configuration file may hold when the extension
\* reads it
ConfigFiles ==
    { NoConfigFile,
      ConfigText("error", <<>>),
      ConfigText("null", <<>>),
      ConfigText("object", <<>>),
      ConfigText("object", [board |-> JStr("arduino:avr:nano")]),
      ConfigText("object", [baudrate |-> JNum(0 - 9600)]),
      ConfigText("object", [baudrate |-> JStr("fast")]),
      ConfigText("object", [board |-> JStr(""), port |-> JStr("COM9"), baudrate |-> JNum(0)]),
      ConfigText("object", [port |-> JNull, baudrate |-> JNum(9600)]) }

\* the user edits, replaces or deletes the configuration file
EditConfigFile(f) ==
    /\ configFile # f
    /\ configFile' = f
    /\ UNCHANGED <<now, ticks, cacheFile, tool, proc, outputChannel, hasWorkspace,
                   disk, config, statusBar, event>>

\* the configuration manager and the status bar once activate has run over
\* configuration file file0
Activate(file0) ==
    LET loaded == loadConfig(DefaultConfig, file0) IN
    /\ config = loaded.config
    /\ configFile = loaded.file
    /\ statusBar = createStatusBarItems
    /\ event = Activated

----------------------------------------------------------------------------
(* The states the extension can start in *)

\* what `board listall --format json` may print
BoardsOutput ==
    JsonList("boards",
        << [name |-> "Arduino Uno", fqbn |-> "arduino:avr:uno"],
           [name |-> "No Fqbn"],
           [name |-> "Arduino Due", fqbn |-> "arduino:sam:due"] >>)

InstalledOutput ==
    JsonList("installed_libraries", << [name |-> "Servo", version |-> "1.1.0"] >>)

OutdatedOutput ==
    JsonList("libraries", << [name |-> "Servo", version |-> "1.2.0"] >>)

SearchOutput ==
    JsonList("libraries",
        << [name |-> "Servo", version |-> "1.2.0"],
           [name |-> "WiFi", version |-> "2.0.0"] >>)

\* the tool as the cache layer's specification sees it: it prints lists, or
\* prints JSON without them
ToolWorlds ==
    { [boards |-> BoardsOutput, installed |-> InstalledOutput,
       outdated |-> OutdatedOutput, search |-> SearchOutput],
      [boards |-> JsonNoList, installed |-> InstalledOutput,
       outdated |-> Garbage, search |-> JsonNoList] }

\* a list as an earlier run has cached it
CachedList(d) ==
    IF d = "boards"
    THEN << [label |-> "Arduino Nano", fqbn |-> "arduino:avr:nano", name |-> "Arduino Nano"] >>
    ELSE << [name |-> "Servo", version |-> "1.0.0", installed |-> TRUE, hasUpdate |-> FALSE] >>

\* the cache file found at activation: none, a corrupted one, or a list
\* written exactly at, just before or well within the expiration window
InitFiles(d) ==
    {NoFile, FileOf(Garbage, 0, "init"), FileOf(JsonNoList, 0, "init"),
     FileOf(Garbage, 0 - cacheExpiration - 1, "init"),
     FileOf(JsonList(CacheKey(d), <<>>), 0, "init")}
    \cup {FileOf(JsonList(CacheKey(d), CachedList(d)), t, "init") :
            t \in {0, 0 - cacheExpiration, 0 - cacheExpiration - 1}}

Init ==
    /\ now = 0
    /\ ticks = 0
    /\ cacheFile \in [Datasets -> UNION {InitFiles(d) : d \in Datasets}]
    /\ \A d \in Datasets : cacheFile[d] \in InitFiles(d)
    /\ tool \in ToolWorlds
    /\ proc = [p \in Procs |-> ProcIdle]
    /\ outputChannel = <<>>
    /\ hasWorkspace = TRUE
    /\ disk = "ok"
    /\ Activate(NoConfigFile)

Next ==
    \/ \E p \in Procs : ListBoards(p)
    \/ \E p \in Procs : OpenLibraryManager(p)
    \/ \E p \in Procs : RefreshBoardsCache(p)
    \/ \E p \in Procs : RefreshCache(p)
    \/ \E p \in Procs, error \in BOOLEAN : BoardsExecDone(p, error)
    \/ \E p \in Procs, error \in BOOLEAN : InstalledDone(p, error)
    \/ \E p \in Procs, error \in BOOLEAN : OutdatedDone(p, error)
    \/ \E p \in Procs, error \in BOOLEAN : SearchDone(p, error)
    \/ \E step \in TickSteps : Tick(step)

Spec == Init /\ [][Next]_vars

\* upload and check alone: the subprocess runner
InitUpload ==
    /\ now = 0
    /\ ticks = 0
    /\ cacheFile = [d \in Datasets |-> NoFile]
    /\ tool \in {w \in ToolWorlds : w.boards = BoardsOutput}
    /\ proc = [p \in Procs |-> ProcIdle]
    /\ outputChannel = <<>>
    /\ hasWorkspace \in BOOLEAN
    /\ disk = "ok"
    /\ Activate(NoConfigFile)

NextUpload ==
    \/ \E p \in Procs : Upload(p)
    \/ \E p \in Procs : Check(p)
    \/ \E p \in Procs : ChildData(p)
    \/ \E p \in Procs, code \in ExitCodes : ChildClose(p, code)
    \/ \E p \in Procs : ChildError(p)

SpecUpload == InitUpload /\ [][NextUpload]_vars

\* the library fetch alone, over what arduino-cli may print: every output is
\* unparseable, JSON without its list, or a list of at most two entries that
\* may repeat a name or lack a name or a version
JoinEntries ==
    { [name |-> "Servo", version |-> "1.0.0"],
      [name |-> "Servo", version |-> "2.0.0"],
      [name |-> "WiFi"],
      [version |-> "1.0.0"] }

JoinLists ==
    {<<>>} \cup {<<a>> : a \in JoinEntries}
           \cup {<<a, b>> : a \in JoinEntries, b \in JoinEntries}

JoinOutputs(k) == {Garbage, JsonNoList} \cup {JsonList(k, l) : l \in JoinLists}

InitJoin ==
    /\ now = 0
    /\ ticks = 0
    /\ cacheFile = [d \in Datasets |-> NoFile]
    /\ tool \in [boards : {BoardsOutput},
                 installed : JoinOutputs("installed_libraries"),
                 outdated : JoinOutputs("libraries"),
                 search : JoinOutputs("libraries")]
    /\ proc = [p \in Procs |-> ProcIdle]
    /\ outputChannel = <<>>
    /\ hasWorkspace = TRUE
    /\ disk = "ok"
    /\ Activate(NoConfigFile)

NextJoin ==
    \/ OpenLibraryManager("c1")
    \/ \E error \in BOOLEAN : InstalledDone("c1", error)
    \/ \E error \in BOOLEAN : OutdatedDone("c1", error)
    \/ \E error \in BOOLEAN : SearchDone("c1", error)

SpecJoin == InitJoin /\ [][NextJoin]_vars

----------------------------------------------------------------------------
(* Vocabulary of the properties *)

ListCmds == {"listBoards", "openLibraryManager"}
RefreshCmds == {"refreshBoardsCache", "refreshCache"}
FetchPcs == {"fetching", "promiseAll", "searching"}
ReturnedPcs == {"done", "quickPick"}

\* file f holds JSON with the list array of dataset d
Parseable(f, d) == f.exists /\ f.parses /\ f.key = CacheKey(d)

\* file f exists and is not such JSON
Corrupted(f, d) == f.exists /\ ~(f.parses /\ f.key = CacheKey(d))

Age(f) == now - f.mtime

\* in this step invocation p starts a list command
StartsList(p) == proc[p].pc = "idle" /\ proc'[p].cmd \in ListCmds

\* in this step the live fetch of invocation p settles and its fetchBoards /
\* fetchLibraries returns
Settles(p) == proc[p].pc \in FetchPcs /\ proc'[p].pc \in ReturnedPcs

\* ... and the fetch had failed
FetchFails(p) == Settles(p) /\ "ErrorFetching" \in proc'[p].shown

----------------------------------------------------------------------------
(* C1 *)

\* C1: when the live fetch of a list operation fails and a parseable cache
\* file older than 7 days exists, the operation returns that file's list
\* (not the static boards, not the empty library list).
C1_StaleCacheOnFetchFailure ==
    [][\A p \in Procs :
        LET d == DatasetOf(proc[p].cmd)
            f == cacheFile[d]
        IN (FetchFails(p) /\ proc[p].cmd \in ListCmds
                /\ Parseable(f, d) /\ Age(f) > cacheExpiration)
            => proc'[p].result = f.list]_vars

----------------------------------------------------------------------------
(* C2 *)

\* C2: a cache file more than 7 days old is never a hit of the cache load,
\* neither when the list operation starts (it then starts the live fetch)
\* nor in the fallback after a failed fetch; a parseable file aged exactly
\* 7 days or less is a hit.
C2_ExpiredNeverHit ==
    [][\A p \in Procs :
        LET d == DatasetOf(proc'[p].cmd)
            f == cacheFile[d]
        IN /\ (StartsList(p) /\ f.exists /\ Age(f) > cacheExpiration)
                => /\ proc'[p].pc \in FetchPcs
                   /\ proc'[p].running # {}
                   /\ "LoadingFromCache" \notin proc'[p].shown
           /\ (FetchFails(p) /\ f.exists /\ Age(f) > cacheExpiration)
                => "UsingCached" \notin proc'[p].shown
           /\ (StartsList(p) /\ Parseable(f, d) /\ Age(f) <= cacheExpiration)
                => /\ "LoadingFromCache" \in proc'[p].shown
                   /\ proc'[p].pc \in ReturnedPcs]_vars

\* witness of C2: one list operation is fetching over a parseable file older
\* than 7 days while another has returned a file aged exactly 7 days
C2_Witness ==
    \E p, q \in Procs :
        /\ proc[p].cmd = "listBoards" /\ proc[p].pc = "fetching"
        /\ Parseable(cacheFile["boards"], "boards")
        /\ Age(cacheFile["boards"]) > cacheExpiration
        /\ proc[q].cmd = "openLibraryManager" /\ proc[q].pc = "quickPick"
        /\ "LoadingFromCache" \in proc[q].shown
        /\ Age(cacheFile["libraries"]) = cacheExpiration

----------------------------------------------------------------------------
(* C3 *)

\* C3: a manual refresh whose re-fetch failed reports an error, does not
\* report that the cache was refreshed, and has no static default list
\* substituted for the failed fetch.
C3_RefreshRaisesFetchFailure ==
    \A p \in Procs :
        (proc[p].cmd \in RefreshCmds /\ proc[p].pc = "done"
            /\ "ErrorFetching" \in proc[p].shown)
        => /\ "ErrorRefreshing" \in proc[p].shown
           /\ "RefreshedSuccessfully" \notin proc[p].shown
           /\ proc[p].from # "static"

----------------------------------------------------------------------------
(* C4 *)

\* C4: once a manual refresh has unlinked the old cache file, that file is
\* never on disk again, and a refresh whose fetch failed has not returned
\* its contents, whatever the other invocation does in between.
C4_RefreshRemovesOldCache ==
    \A p \in Procs :
        (proc[p].cmd \in RefreshCmds /\ proc[p].removed # "none")
        => /\ cacheFile[DatasetOf(proc[p].cmd)].writer # proc[p].removed
           /\ proc[p].from # proc[p].removed

\* witness of C4: a refresh that removed a cache file has ended with a failed
\* fetch while the other invocation, on the same dataset, has fetched and
\* written a new file
C4_Witness ==
    \E p, q \in Procs :
        /\ proc[p].cmd = "refreshBoardsCache" /\ proc[p].pc = "done"
        /\ proc[p].removed = "init"
        /\ "ErrorFetching" \in proc[p].shown
        /\ proc[q].cmd = "listBoards" /\ proc[q].from = "fetch"
        /\ cacheFile["boards"].writer = q

----------------------------------------------------------------------------
(* C5 *)

\* C5: within one upload invocation the upload subprocess has been started
\* only if the compile subprocess closed with exit code 0, it is not started
\* once the compile step has failed, and the two never run together.
C5_UploadOnlyAfterCompile ==
    \A p \in Procs :
        proc[p].cmd = "upload" =>
            /\ "upload" \in proc[p].execs
                 => /\ "compile" \in DOMAIN proc[p].exits
                    /\ proc[p].exits["compile"] = [event |-> "close", code |-> 0]
            /\ ~({"compile", "upload"} \subseteq proc[p].running)

\* witness of C5: an upload subprocess is running
C5_Witness ==
    \E p \in Procs : proc[p].cmd = "upload" /\ "upload" \in proc[p].running

----------------------------------------------------------------------------
(* C6 *)

\* the list a live fetch of invocation p gives when it succeeds
FetchedList(p, d) ==
    IF d = "boards"
    THEN getAvailableBoardsStreaming(FALSE).value
    ELSE JoinLibraries(getAvailableLibrariesStreaming(FALSE).value,
                       proc[p].installedLibs, proc[p].outdatedLibs)

\* C6: over a corrupted cache file (unparseable, or JSON without the list
\* array) a list operation does what it does over no file at all: it starts
\* the live fetch, returns the fetched list if the fetch succeeds and the
\* static list if it fails, and raises no error to its command.
C6_CorruptedAsMissing ==
    [][\A p \in Procs :
        LET d == DatasetOf(proc'[p].cmd)
            f == cacheFile[d]
        IN (proc'[p].cmd \in ListCmds /\ (~f.exists \/ Corrupted(f, d))) =>
            /\ StartsList(p) =>
                 /\ proc'[p].pc \in FetchPcs
                 /\ proc'[p].shown = {"Fetching"}
                 /\ proc'[p].running = proc'[p].execs /\ proc'[p].execs # {}
            /\ Settles(p) =>
                 /\ proc'[p].shown \cap {"LoadingFromCache", "UsingCached",
                        "ErrorListingBoards", "ErrorOpeningLibraryManager"} = {}
                 /\ IF FetchFails(p)
                    THEN proc'[p].result = StaticList(d) /\ proc'[p].from = "static"
                    ELSE proc'[p].result = FetchedList(p, d) /\ proc'[p].from = "fetch"]_vars

\* witness of C6: a board listing over a corrupted cache file has ended on
\* the static boards after a failed fetch
C6_Witness ==
    \E p \in Procs :
        /\ proc[p].cmd = "listBoards" /\ proc[p].pc = "done"
        /\ proc[p].from = "static"
        /\ Corrupted(cacheFile["boards"], "boards")

----------------------------------------------------------------------------
(* C7 *)

\* every subprocess the invocation has seen end ended in an error
AllFailed(r) == r.failed # {} /\ (r.execs \ r.running) \subseteq r.failed

\* C7: when every invocation of the tool fails and there is no cache file,
\* the board list operation returns exactly the 12 hardcoded boards and the
\* library list operation returns the empty list.
C7_NoToolNoCache ==
    [][\A p \in Procs :
        LET d == DatasetOf(proc[p].cmd) IN
        (Settles(p) /\ proc[p].cmd \in ListCmds /\ ~cacheFile[d].exists
            /\ AllFailed(proc'[p]))
        => IF d = "boards"
           THEN /\ Len(proc'[p].result) = 12
                /\ proc'[p].result = getCommonBoards
                /\ \A i \in 1..12 : Truthy(proc'[p].result[i].fqbn)
           ELSE proc'[p].result = <<>>]_vars

\* witness of C7: with no cache file of either dataset, a board listing and a
\* library listing have both ended after all their subprocesses failed
C7_Witness ==
    \E p, q \in Procs :
        /\ proc[p].cmd = "listBoards" /\ proc[p].pc = "done"
        /\ AllFailed(proc[p]) /\ Len(proc[p].result) = 12
        /\ proc[q].cmd = "openLibraryManager" /\ proc[q].pc = "done"
        /\ AllFailed(proc[q]) /\ proc[q].result = <<>>
        /\ \A d \in Datasets : ~cacheFile[d].exists

----------------------------------------------------------------------------
(* C8, C9 *)

\* the three lists as arduino-cli printed them to invocation r
RawSearch == IF tool.search.key = "libraries" THEN tool.search.list ELSE <<>>

RawInstalled ==
    IF tool.installed.key = "installed_libraries" THEN tool.installed.list ELSE <<>>

RawOutdated(r) ==
    IF "lib outdated" \in r.failed \/ ~tool.outdated.parses
        \/ tool.outdated.key # "libraries"
    THEN <<>>
    ELSE tool.outdated.list

\* the positions of list l that name library n (and, for the outdated list,
\* give its latest version)
Naming(l, n) == {j \in 1..Len(l) : "name" \in DOMAIN l[j] /\ l[j].name = n}

NamingWithVersion(l, n) == {j \in Naming(l, n) : "version" \in DOMAIN l[j]}

Last(S) == CHOOSE j \in S : \A k \in S : k <= j

\* the invocation's live library fetch has succeeded
FetchSucceeded(r) ==
    r.cmd = "openLibraryManager" /\ r.pc \in ReturnedPcs /\ r.from = "fetch"

\* C8: a successful library fetch has one entry per search result, in order;
\* an entry is installed exactly when the installed list names it, has an
\* update exactly when the outdated list names it, and its latest version is
\* the one the outdated list gives for it (none when it does not).
C8_JoinByName ==
    \A p \in Procs :
        FetchSucceeded(proc[p]) =>
            LET res == proc[p].result
                out == RawOutdated(proc[p])
            IN /\ Len(res) = Len(RawSearch)
               /\ \A i \in 1..Len(res) :
                    LET n == res[i].name IN
                    /\ n = Get(RawSearch[i], "name")
                    /\ res[i].installed = (Naming(RawInstalled, n) # {})
                    /\ res[i].hasUpdate = (NamingWithVersion(out, n) # {})
                    /\ res[i].latestVersion =
                         IF NamingWithVersion(out, n) # {}
                         THEN out[Last(NamingWithVersion(out, n))].version
                         ELSE Undef

\* witness of C8: a fetch has returned an installed entry with an update and
\* an entry that is not installed
C8_Witness ==
    \E p \in Procs :
        /\ FetchSucceeded(proc[p])
        /\ Len(proc[p].result) = 2
        /\ proc[p].result[1].installed /\ proc[p].result[1].hasUpdate
        /\ proc[p].result[1].latestVersion = "2.0.0"
        /\ ~proc[p].result[2].installed /\ ~proc[p].result[2].hasUpdate

\* C9: in every entry a library fetch produces, version is the installed
\* version: the one the installed list records for an installed name, and
\* absent for a name that is not installed.
C9_VersionIsInstalledVersion ==
    \A p \in Procs :
        FetchSucceeded(proc[p]) =>
            \A i \in 1..Len(proc[p].result) :
                LET e == proc[p].result[i]
                    at == Naming(RawInstalled, e.name)
                IN e.version = IF at # {}
                               THEN Get(RawInstalled[Last(at)], "version")
                               ELSE Undef

----------------------------------------------------------------------------
(* C10 *)

\* C10: over a parseable cache file within the 7-day window a list operation
\* returns exactly the list stored in the file, starts no subprocess and
\* leaves the cache files as they are.
C10_FreshCacheHit ==
    [][\A p \in Procs :
        LET d == DatasetOf(proc'[p].cmd)
            f == cacheFile[d]
        IN (StartsList(p) /\ Parseable(f, d) /\ Age(f) <= cacheExpiration)
            => /\ proc'[p].pc \in ReturnedPcs
               /\ proc'[p].result = f.list
               /\ proc'[p].execs = {} /\ proc'[p].running = {}
               /\ cacheFile' = cacheFile]_vars

\* witness of C10: a board listing has returned the non-empty list of a
\* cache file without starting a subprocess
C10_Witness ==
    \E p \in Procs :
        /\ proc[p].cmd = "listBoards" /\ proc[p].pc = "done"
        /\ "LoadingFromCache" \in proc[p].shown
        /\ proc[p].execs = {}
        /\ Len(proc[p].result) > 0
        /\ proc[p].result = cacheFile["boards"].list
        /\ Age(cacheFile["boards"]) > 0

----------------------------------------------------------------------------
(* C11 *)

\* lists a and b read the same: equal length and, entry by entry, every
\* property has the same value (an absent property reads as undefined)
SameList(a, b) ==
    /\ Len(a) = Len(b)
    /\ \A i \in 1..Len(a) :
        \A k \in DOMAIN a[i] \cup DOMAIN b[i] : Get(a[i], k) = Get(b[i], k)

\* invocation p is a list operation that missed the cache, fetched its
\* list, and whose cache file is still the one on disk, within its window
FetchedAndCached(p, d) ==
    /\ proc[p].cmd \in ListCmds /\ DatasetOf(proc[p].cmd) = d
    /\ proc[p].pc \in ReturnedPcs /\ proc[p].from = "fetch"
    /\ cacheFile[d].writer = p
    /\ Age(cacheFile[d]) <= cacheExpiration

\* C11: a list operation that misses the cache and whose live fetch
\* succeeds returns the fetched list and writes it to the cache file with
\* the current time; a following list operation within 7 days, the file not
\* rewritten or removed in between, returns that same list from the cache
\* and starts no subprocess.
C11_FetchThenCacheHit ==
    [][\A p \in Procs :
        /\ (Settles(p) /\ ~FetchFails(p) /\ proc[p].cmd \in ListCmds) =>
              LET d == DatasetOf(proc[p].cmd) IN
              /\ proc'[p].result = FetchedList(p, d)
              /\ Parseable(cacheFile'[d], d)
              /\ SameList(cacheFile'[d].list, proc'[p].result)
              /\ cacheFile'[d].mtime = now /\ cacheFile'[d].writer = p
        /\ \A q \in Procs \ {p} :
              LET d == DatasetOf(proc'[q].cmd) IN
              (StartsList(q) /\ FetchedAndCached(p, d)) =>
                  /\ proc'[q].pc \in ReturnedPcs
                  /\ SameList(proc'[q].result, proc[p].result)
                  /\ proc'[q].from = p
                  /\ proc'[q].execs = {} /\ proc'[q].running = {}]_vars

\* witness of C11: a library listing has fetched and cached a non-empty
\* list, time has passed, and the other listing has returned that list from
\* the first one's cache file without a subprocess
C11_Witness ==
    \E p, q \in Procs :
        /\ FetchedAndCached(p, "libraries")
        /\ Len(proc[p].result) > 0
        /\ Age(cacheFile["libraries"]) > 0
        /\ proc[q].cmd = "openLibraryManager" /\ proc[q].pc = "quickPick"
        /\ proc[q].from = p /\ proc[q].execs = {}
        /\ SameList(proc[q].result, proc[p].result)
        /\ proc[q].result # proc[p].result

----------------------------------------------------------------------------
(* The configuration commands and the editor listeners alone *)

\* a board list as an earlier version may have cached it: an fqbn padded
\* with blanks, an entry without fqbn
PaddedBoards ==
    << [label |-> "Arduino Due", fqbn |-> " arduino:sam:due ", name |-> "Arduino Due"],
       [label |-> "No Fqbn", name |-> "No Fqbn"] >>

InitConfig ==
    /\ now = 0
    /\ ticks = 0
    /\ cacheFile = [d \in Datasets |->
                      IF d = "boards"
                      THEN FileOf(JsonList("boards", PaddedBoards), 0, "init")
                      ELSE NoFile]
    /\ tool \in {w \in ToolWorlds : w.boards = BoardsOutput}
    /\ proc = [p \in Procs |-> ProcIdle]
    /\ outputChannel = <<>>
    /\ hasWorkspace = TRUE
    /\ disk = "ok"
    /\ \E file0 \in ConfigFiles : Activate(file0)

NextConfig ==
    \/ SelectBoard("c1")
    \/ \E i \in 0..MaxPick : PickBoard("c1", i)
    \/ SelectPort("c1")
    \/ \E error \in BOOLEAN, stdout \in PortOutputs : PortsExecDone("c1", error, stdout)
    \/ PortsTimeout("c1")
    \/ \E i \in 0..MaxPick : PickPort("c1", i)
    \/ SetBaudrate("c1")
    \/ \E input \in PromptInputs \cup {Undef} : BaudrateEntered("c1", input)
    \/ Returned("c1")
    \/ \E doc \in Docs : OpenTextDocument(doc)
    \/ \E editor \in Docs \cup {NoEditor} : ChangeActiveTextEditor(editor)
    \/ \E f \in ConfigFiles : EditConfigFile(f)

SpecConfig == InitConfig /\ [][NextConfig]_vars

----------------------------------------------------------------------------
(* C12 *)

SetNotes == {"BoardSet", "PortSet", "BaudrateSet"}

\* in this step a setBoard, setPort or setBaudrate of invocation p returns
SetReturns(p) == \E m \in SetNotes : m \notin proc[p].shown /\ m \in proc'[p].shown

\* the configuration file holds exactly the in-memory configuration cfg
FileHolds(file, cfg) ==
    /\ file.exists /\ file.parsed = "object"
    /\ DOMAIN file.content = ConfigKeys
    /\ \A k \in ConfigKeys : Prop(file.content, k) = cfg[k]

\* C12: when a setBoard, setPort or setBaudrate returns, the configuration
\* file holds the board, port and baudrate of the in-memory configuration,
\* whatever sets, loads and edits of the file came before.
C12_PersistedOnMutation ==
    [][\A p \in Procs : SetReturns(p) => FileHolds(configFile', config')]_vars

\* witness of C12: after a port was set and a baudrate was loaded from an
\* edited file, a board has been set and the file holds all three
C12_Witness ==
    /\ "BoardSet" \in proc["c1"].shown
    /\ config = [board |-> JStr("arduino:sam:due"), port |-> JStr("COM1"),
                 baudrate |-> JStr("fast")]
    /\ FileHolds(configFile, config)

----------------------------------------------------------------------------
(* C13 *)

\* C13: in every reachable state the baudrate of the configuration is a
\* positive integer, whatever the configuration file holds when loadConfig
\* reads it and whatever the user types in the baudrate prompt.
C13_BaudratePositive ==
    config.baudrate.t = "number" /\ config.baudrate.n > 0

----------------------------------------------------------------------------
(* Every command, one invocation, over a disk that may fail *)

InitCommands ==
    /\ now = 0
    /\ ticks = 0
    /\ cacheFile \in [Datasets -> {NoFile}
                        \cup {FileOf(JsonList("boards", PaddedBoards), 0, "init")}
                        \cup {FileOf(JsonList(CacheKey(d), CachedList(d)), 0, "init") :
                                d \in Datasets}]
    /\ \A d \in Datasets : cacheFile[d].key \in {"none", CacheKey(d)}
    /\ tool \in ToolWorlds
    /\ proc = [p \in Procs |-> ProcIdle]
    /\ outputChannel = <<>>
    /\ hasWorkspace \in BOOLEAN
    /\ disk \in {"ok", "failing"}
    /\ Activate(NoConfigFile)

NextCommands ==
    \/ Upload("c1")
    \/ Check("c1")
    \/ ChildData("c1")
    \/ \E code \in ExitCodes : ChildClose("c1", code)
    \/ ChildError("c1")
    \/ SelectBoard("c1")
    \/ SelectPort("c1")
    \/ Gui("c1")
    \/ \E i \in 0..MaxPick : PickBoard("c1", i)
    \/ \E error \in BOOLEAN, stdout \in PortOutputs : PortsExecDone("c1", error, stdout)
    \/ PortsTimeout("c1")
    \/ \E i \in 0..MaxPick : PickPort("c1", i)
    \/ ListBoards("c1")
    \/ OpenLibraryManager("c1")
    \/ \E i \in 0..MaxPick : PickLibrary("c1", i)
    \/ \E error \in BOOLEAN : InstallDone("c1", error)
    \/ RefreshBoardsCache("c1")
    \/ RefreshCache("c1")
    \/ \E error \in BOOLEAN : BoardsExecDone("c1", error)
    \/ \E error \in BOOLEAN : InstalledDone("c1", error)
    \/ \E error \in BOOLEAN : OutdatedDone("c1", error)
    \/ \E error \in BOOLEAN : SearchDone("c1", error)
    \/ DiskFault

SpecCommands == InitCommands /\ [][NextCommands]_vars

----------------------------------------------------------------------------
(* C14 *)

\* the notifications raised with showErrorMessage
ErrorNotes ==
    {"UploadFailed", "CheckFailed", "ErrorFetching", "ErrorRefreshing",
     "ErrorSelectingBoard", "ErrorGettingPorts", "ActionFailed",
     "NoBoardsFound", "NoPortsFound", "NoLibrariesFound", "NoWorkspace",
     "ErrorSavingConfig", "ErrorLoadingConfig"}

\* the subprocesses of invocation r that ended in a failure: exec called
\* back with an error, or the spawned child closed with a code other than 0
\* or could not be spawned
FailedExecs(r) ==
    r.failed \cup {x \in DOMAIN r.exits : r.exits[x] # [event |-> "close", code |-> 0]}

\* the subprocesses whose failure the code absorbs without a notification
Tolerated == {"lib outdated", "board list"}

\* invocation r is neither idle, nor ended, nor waiting for the user
Awaiting(r) == r.pc \notin {"idle", "done", "quickPick", "quickPickPort", "inputBox"}

\* C14 as stated: no command lets an exception through to the host, and
\* every subprocess failure has produced a user-visible error message.
C14_CaughtAndShown ==
    \A p \in Procs :
        /\ ~proc[p].escaped
        /\ FailedExecs(proc[p]) # {} => proc[p].shown \cap ErrorNotes # {}

\* C14, amended: no command lets an exception through to the host and none
\* is left waiting for nothing, whichever subprocess fails, whichever
\* output does not parse and whether or not the disk fails; a failure of
\* compile, upload, lib install, board listall, lib list or lib search, and
\* every failed fetch, has produced an error message; a failure of lib
\* outdated or of board list alone produces none (no update is flagged, the
\* common ports are offered).
C14_CaughtAndShownButTolerated ==
    \A p \in Procs :
        LET r == proc[p] IN
        /\ ~r.escaped
        /\ Awaiting(r) => r.running # {}
        /\ FailedExecs(r) \ Tolerated # {} => r.shown \cap ErrorNotes # {}
        /\ r.from = "static" => "ErrorFetching" \in r.shown
        /\ (r.failed = {"lib outdated"} /\ r.from = "fetch" /\ r.pc = "quickPick"
                /\ ~r.reopened)
              => /\ r.shown \cap ErrorNotes = {}
                 /\ \A i \in 1..Len(r.result) : ~r.result[i].hasUpdate
        /\ (r.failed = {"board list"} /\ r.cmd = "selectPort" /\ r.pc = "quickPickPort")
              => r.shown \cap ErrorNotes = {} /\ r.ports = getCommonPorts

\* witness of C14: a gui invocation has ended after setBoard threw on an
\* entry without fqbn, which selectBoard caught and reported, and after
\* `board list` failed, which left the common ports to choose from
C14_Witness ==
    /\ proc["c1"].cmd = "gui" /\ proc["c1"].pc = "done"
    /\ "ErrorSelectingBoard" \in proc["c1"].shown
    /\ "board list" \in proc["c1"].failed
    /\ "PortSet" \in proc["c1"].shown
    /\ ~proc["c1"].escaped
    /\ config.port = JStr("COM1")

----------------------------------------------------------------------------
(* C15 *)

\* C15 as stated: at most one subprocess started by an invocation is running
\* at any moment.
C15_OneSubprocessAtATime ==
    \A p \in Procs : Cardinality(proc[p].running) <= 1

\* C15, amended: apart from `lib outdated`, at most one subprocess started
\* by an invocation is running at any moment, and a subprocess is started
\* only when the others have ended; the library fetch starts lib
\* list and lib outdated together and starts lib search only after both have
\* ended, and lib outdated may still be running when the command has gone on
\* after a failed lib list.
C15_OneAtATimeButPromiseAll ==
    [][\A p \in Procs :
        LET started == proc'[p].running \ proc[p].running IN
        /\ Cardinality(proc'[p].running \ {"lib outdated"}) <= 1
        /\ started # {} =>
              /\ proc'[p].running \ {"lib outdated"} \subseteq started
              /\ \/ Cardinality(started) = 1
                 \/ started = {"lib list", "lib outdated"}
        /\ "lib search" \in started => proc'[p].running = {"lib search"}
        /\ "upload" \in started => "compile" \in proc[p].execs]_vars

\* witness of C15: the library manager is installing a library while the lib
\* outdated of its failed fetch is still running
C15_Witness ==
    /\ proc["c1"].cmd = "openLibraryManager"
    /\ proc["c1"].running = {"lib install", "lib outdated"}
    /\ "lib list" \in proc["c1"].failed

----------------------------------------------------------------------------
(* C16 *)

Closed0 == [event |-> "close", code |-> 0]

\* the subprocesses upload / check run when all goes well
StepsOf(cmd) == IF cmd = "upload" THEN {"compile", "upload"} ELSE {"compile"}

Succeeded(r) == {"UploadCompleted", "CheckCompleted"} \cap r.shown # {}

Failed(r) == {"UploadFailed", "CheckFailed"} \cap r.shown # {}

\* C16: a compile / upload subprocess that closes with code 0 lets its
\* command go on, one that closes with any other code ends the command in a
\* failure whose error line carries that code; upload / check report
\* success only when every subprocess of theirs closed with 0, and an ended
\* invocation with a workspace folder has reported exactly one of success
\* and failure.
C16_ExitCodeZeroIsSuccess ==
    [][\A p \in Procs :
        LET r == proc'[p]
            closed == DOMAIN r.exits \ DOMAIN proc[p].exits
        IN r.cmd \in {"upload", "check"} =>
            /\ \A x \in closed :
                 IF r.exits[x] = Closed0
                 THEN /\ ~Failed(r)
                      /\ IF x = "compile" /\ r.cmd = "upload"
                         THEN r.running = {"upload"} /\ ~Succeeded(r)
                         ELSE Succeeded(r) /\ r.pc = "done"
                 ELSE /\ Failed(r) /\ ~Succeeded(r) /\ r.pc = "done"
                      /\ r.running = {}
                      /\ r.exits[x].event = "close" =>
                           outputChannel'[Len(outputChannel')] =
                               [line |-> "Error: Command failed with exit code",
                                n |-> r.exits[x].code, names |-> <<>>]
            /\ Succeeded(r) =>
                 /\ DOMAIN r.exits = StepsOf(r.cmd)
                 /\ \A x \in DOMAIN r.exits : r.exits[x] = Closed0
            /\ ~(Succeeded(r) /\ Failed(r))
            /\ (r.pc = "done" /\ hasWorkspace) => (Succeeded(r) \/ Failed(r))
            /\ r.pc # "done" => ~(Succeeded(r) \/ Failed(r))]_vars

\* witness of C16: an upload has failed on its upload step closing with
\* code 2 after its compile step closed with 0, and a check has succeeded
C16_Witness ==
    \E p, q \in Procs :
        /\ proc[p].cmd = "upload" /\ proc[p].pc = "done"
        /\ DOMAIN proc[p].exits = {"compile", "upload"}
        /\ proc[p].exits["compile"] = Closed0
        /\ proc[p].exits["upload"] = [event |-> "close", code |-> 2]
        /\ "UploadFailed" \in proc[p].shown
        /\ proc[q].cmd = "check" /\ "CheckCompleted" \in proc[q].shown

----------------------------------------------------------------------------
(* C17 *)

\* C17: once handleLibraryAction has installed a library that was listed as
\* not installed and has opened the library manager again, the list the
\* manager then shows has that library as installed (no subprocess of the
\* invocation having failed).
C17_ReopenedListShowsInstalled ==
    \A p \in Procs :
        LET r == proc[p] IN
        (r.action = "install" /\ r.reopened /\ r.pc \in ReturnedPcs
            /\ r.failed = {})
        => \E i \in 1..Len(r.result) :
              r.result[i].name = r.library /\ r.result[i].installed

----------------------------------------------------------------------------
(* C18 *)

\* the invocation's lib outdated failed: exec error, or unparseable output
OutdatedFailed(r) == "lib outdated" \in r.failed \/ ~tool.outdated.parses

\* the invocation's lib list or lib search failed
InstalledOrSearchFailed(r) ==
    \/ "lib list" \in r.failed \/ "lib search" \in r.failed
    \/ ("lib list" \in r.execs \ r.running /\ ~tool.installed.parses)
    \/ ("lib search" \in r.execs \ r.running /\ ~tool.search.parses)

\* C18: a library fetch in which only lib outdated failed succeeds, writes
\* the cache and flags no entry as having an update; a library fetch whose
\* lib list or lib search failed fails as a whole: it writes no cache and
\* returns the list of a valid cache file, or else the empty list.
C18_OutdatedFailureTolerated ==
    [][\A p \in Procs :
        LET r == proc'[p]
            f == cacheFile["libraries"]
        IN (Settles(p) /\ DatasetOf(r.cmd) = "libraries") =>
            IF InstalledOrSearchFailed(r)
            THEN /\ FetchFails(p)
                 /\ cacheFile' = cacheFile
                 /\ r.from # "fetch"
                 /\ r.result = IF Parseable(f, "libraries") /\ Age(f) <= cacheExpiration
                               THEN f.list ELSE <<>>
            ELSE /\ ~FetchFails(p)
                 /\ r.from = "fetch"
                 /\ cacheFile'["libraries"].writer = p
                 /\ Len(r.result) = Len(RawSearch)
                 /\ OutdatedFailed(r) => \A i \in 1..Len(r.result) : ~r.result[i].hasUpdate]_vars

\* witness of C18: one invocation has fetched and cached a list without
\* update flags although its lib outdated failed and an entry of it is
\* outdated; the other, whose lib list failed, has fallen back on that cache
C18_Witness ==
    \E p, q \in Procs :
        /\ FetchSucceeded(proc[p])
        /\ "lib outdated" \in proc[p].failed
        /\ tool.outdated = OutdatedOutput
        /\ Len(proc[p].result) = 2
        /\ \A i \in 1..2 : ~proc[p].result[i].hasUpdate
        /\ proc[q].cmd = "openLibraryManager" /\ "lib list" \in proc[q].failed
        /\ proc[q].from = p /\ "UsingCached" \in proc[q].shown

----------------------------------------------------------------------------
(* C19 *)

\* this step is a run of loadConfig (by the open-document listener)
LoadConfigRuns ==
    /\ event'.kind = "open" /\ IsArduino(event'.doc)
    /\ OpenTextDocument(event'.doc)

\* C19 as stated: over a missing or unparseable file loadConfig leaves the
\* configuration as it is and rewrites the file with it; over a file that
\* parses, every property present in the file overrides the in-memory value
\* and the file is not written.
C19_LoadConfig ==
    [][LoadConfigRuns =>
        IF ~configFile.exists \/ configFile.parsed = "error"
        THEN config' = config /\ FileHolds(configFile', config)
        ELSE /\ \A k \in ConfigKeys :
                  config'[k] = IF k \in DOMAIN configFile.content
                               THEN configFile.content[k] ELSE config[k]
             /\ configFile' = configFile]_vars

\* C19, amended: over a file that is missing, unparseable or parses to null,
\* loadConfig leaves the configuration as it is and rewrites the file with
\* it; over any other file, every property whose value in the file is
\* truthy overrides the in-memory value, a property that is absent or falsy
\* ("", 0, null) leaves it as it is, and the file is not written.
C19_LoadConfigTruthyOverrides ==
    [][LoadConfigRuns =>
        IF ~configFile.exists \/ configFile.parsed \in {"error", "null"}
        THEN config' = config /\ FileHolds(configFile', config)
        ELSE /\ \A k \in ConfigKeys :
                  config'[k] = IF JsTruthy(Prop(configFile.content, k))
                               THEN configFile.content[k] ELSE config[k]
             /\ configFile' = configFile]_vars

\* witness of C19: loadConfig has run over a file with an empty board, a
\* port and baudrate 0: the port is the file's, the board and the baudrate
\* are still those set before
C19_Witness ==
    /\ event.kind = "open" /\ IsArduino(event.doc)
    /\ configFile = ConfigText("object",
            [board |-> JStr(""), port |-> JStr("COM9"), baudrate |-> JNum(0)])
    /\ config = [board |-> JStr("arduino:sam:due"), port |-> JStr("COM9"),
                 baudrate |-> JNum(9600)]

----------------------------------------------------------------------------
(* C20: the status bar follows the editor *)

AllVisible == \A i \in StatusBarItems : statusBar[i]

AllHidden == \A i \in StatusBarItems : ~statusBar[i]

\* the open listener runs over an Arduino document
OpenArduinoRuns ==
    /\ event'.kind = "open" /\ IsArduino(event'.doc)
    /\ OpenTextDocument(event'.doc)

\* C20: after activation every status-bar item is hidden; in every state the
\* items are all visible or all hidden; after an active-editor change they
\* are visible exactly when the new editor exists and holds an Arduino
\* document (language id arduino or a file name ending in .ino); and opening
\* an Arduino document makes them all visible and reloads the configuration:
\* every property the project file holds with a truthy value becomes the
\* in-memory value.
C20_StatusBarFollowsEditor ==
    /\ [](/\ AllVisible \/ AllHidden
          /\ event.kind = "activate" => AllHidden
          /\ event.kind = "activeEditor" =>
                (AllVisible <=> /\ event.doc # NoEditor
                                /\ \/ event.doc.languageId = "arduino"
                                   \/ event.doc.ino))
    /\ [][OpenArduinoRuns =>
            /\ \A i \in StatusBarItems : statusBar'[i]
            /\ configFile.exists /\ configFile.parsed = "object" =>
                 \A k \in DOMAIN configFile.content :
                    JsTruthy(configFile.content[k]) =>
                        config'[k] = configFile.content[k]]_vars

\* an Arduino document named *.ino with another language id has been opened
\* while the bar was hidden, and the board of the project file was loaded
C20_Witness ==
    /\ event.kind = "open"
    /\ event.doc = [languageId |-> "cpp", ino |-> TRUE]
    /\ AllVisible
    /\ configFile = ConfigText("object", [board |-> JStr("arduino:avr:nano")])
    /\ config.board = JStr("arduino:avr:nano")

----------------------------------------------------------------------------
(* C21: the ports selectPort offers *)

\* the text starts with /dev/tty or COM
IsPortLine(text) == StartsWith(text, "/dev/tty") \/ StartsWith(text, "COM")

\* the first whitespace-delimited token of a text that starts with a
\* non-blank character
FirstWord(text) ==
    LET n == CHOOSE k \in 1..Len(text) :
                 /\ \A j \in 1..k : SubSeq(text, j, j) \notin Whitespace
                 /\ k = Len(text) \/ SubSeq(text, k + 1, k + 1) \in Whitespace
    IN SubSeq(text, 1, n)

\* the first words of the port lines, in output order
RECURSIVE PortWords(_)
PortWords(lines) ==
    IF lines = <<>> THEN <<>>
    ELSE (IF IsPortLine(Head(lines).text) THEN << FirstWord(Head(lines).text) >> ELSE <<>>)
         \o PortWords(Tail(lines))

\* C21: when the `board list` subprocess of a selectPort that is waiting for
\* it completes, the picker is offered a list that is not empty: the 15
\* common ports when the subprocess failed or no line of its output starts
\* with /dev/tty or COM, else the first whitespace-delimited token of each
\* such line, in output order.
C21_PortsOffered ==
    [][\A error \in BOOLEAN, stdout \in PortOutputs :
         proc["c1"].pc = "ports" /\ PortsExecDone("c1", error, stdout) =>
            /\ proc'["c1"].pc = "quickPickPort"
            /\ proc'["c1"].ports # <<>>
            /\ proc'["c1"].ports =
                  IF error \/ \A i \in 1..Len(stdout) : ~IsPortLine(stdout[i].text)
                  THEN getCommonPorts
                  ELSE PortWords(stdout)]_vars

\* the picker is open over the two ports of a listing that also holds a
\* header, an empty line and a line with COM7 in second place
C21_Witness ==
    /\ proc["c1"].cmd = "selectPort"
    /\ proc["c1"].pc = "quickPickPort"
    /\ proc["c1"].ports = << "/dev/ttyUSB0", "COM3" >>

----------------------------------------------------------------------------
(* Commands over a cache that holds an empty list *)

\* the cache file found at activation: for each dataset an empty list,
\* written exactly at, just before or well within the expiration window, or
\* no file
EmptyFiles(d) ==
    {NoFile}
    \cup {FileOf(JsonList(CacheKey(d), <<>>), t, "init") :
            t \in {0, 0 - cacheExpiration, 0 - cacheExpiration - 1}}

InitEmptyCache ==
    /\ now = 0
    /\ ticks = 0
    /\ cacheFile \in [Datasets -> UNION {EmptyFiles(d) : d \in Datasets}]
    /\ \A d \in Datasets : cacheFile[d] \in EmptyFiles(d)
    /\ tool \in ToolWorlds
    /\ proc = [p \in Procs |-> ProcIdle]
    /\ outputChannel = <<>>
    /\ hasWorkspace = TRUE
    /\ disk = "ok"
    /\ Activate(NoConfigFile)

NextEmptyCache ==
    \/ SelectBoard("c1")
    \/ \E i \in 0..MaxPick : PickBoard("c1", i)
    \/ OpenLibraryManager("c1")
    \/ \E i \in 0..MaxPick : PickLibrary("c1", i)
    \/ \E error \in BOOLEAN : InstallDone("c1", error)
    \/ RefreshBoardsCache("c1")
    \/ RefreshCache("c1")
    \/ \E error \in BOOLEAN : BoardsExecDone("c1", error)
    \/ \E error \in BOOLEAN : InstalledDone("c1", error)
    \/ \E error \in BOOLEAN : OutdatedDone("c1", error)
    \/ \E error \in BOOLEAN : SearchDone("c1", error)
    \/ \E step \in TickSteps : Tick(step)
    \/ Returned("c1")

SpecEmptyCache == InitEmptyCache /\ [][NextEmptyCache]_vars

----------------------------------------------------------------------------
(* C22: a cached empty list *)

\* the notification with which a command reports an empty list
NothingFound(cmd) ==
    IF cmd = "selectBoard" THEN "NoBoardsFound" ELSE "NoLibrariesFound"

\* the dataset's cache file holds an empty list under the dataset's key
HoldsEmptyList(d) ==
    /\ cacheFile[d].exists /\ cacheFile[d].parses
    /\ cacheFile[d].key = CacheKey(d)
    /\ cacheFile[d].list = <<>>

\* C22: a selectBoard / library manager call over a cache file that holds an
\* empty array and is at most 7 days old returns the empty list without
\* starting a subprocess, reports that nothing was found and leaves the
\* file as it is (so the next call does the same); once the file is older
\* than 7 days the call starts the fetch instead.
C22_EmptyCacheIsHit ==
    [][\A cmd \in {"selectBoard", "openLibraryManager"} :
         /\ proc["c1"].pc = "idle"
         /\ proc'["c1"].pc # "idle" /\ proc'["c1"].cmd = cmd
         /\ HoldsEmptyList(DatasetOf(cmd))
         => IF now - cacheFile[DatasetOf(cmd)].mtime <= cacheExpiration
            THEN /\ proc'["c1"].pc = "done"
                 /\ proc'["c1"].result = <<>>
                 /\ proc'["c1"].execs = {} /\ proc'["c1"].running = {}
                 /\ NothingFound(cmd) \in proc'["c1"].shown
                 /\ cacheFile' = cacheFile
            ELSE /\ proc'["c1"].pc \in FetchPcs
                 /\ proc'["c1"].running # {}]_vars

\* selectBoard has reported that no boards were found, over an empty list
\* cached exactly 7 days ago, without any subprocess
C22_Witness ==
    /\ proc["c1"].cmd = "selectBoard" /\ proc["c1"].pc = "done"
    /\ "NoBoardsFound" \in proc["c1"].shown
    /\ proc["c1"].execs = {}
    /\ HoldsEmptyList("boards")
    /\ now - cacheFile["boards"].mtime = cacheExpiration
    /\ now > 0

----------------------------------------------------------------------------
(* The prompts and upload / check, with and without a workspace folder *)

InitPrompts ==
    /\ now = 0
    /\ ticks = 0
    /\ cacheFile = [d \in Datasets |->
                      IF d = "boards"
                      THEN FileOf(JsonList("boards", PaddedBoards), 0, "init")
                      ELSE NoFile]
    /\ tool \in {w \in ToolWorlds : w.boards = BoardsOutput}
    /\ proc = [p \in Procs |-> ProcIdle]
    /\ outputChannel = <<>>
    /\ hasWorkspace \in BOOLEAN
    /\ disk = "ok"
    /\ Activate(NoConfigFile)

NextPrompts ==
    \/ Upload("c1")
    \/ Check("c1")
    \/ ChildData("c1")
    \/ \E code \in ExitCodes : ChildClose("c1", code)
    \/ ChildError("c1")
    \/ ListBoards("c1")
    \/ SelectBoard("c1")
    \/ \E i \in 0..MaxPick : PickBoard("c1", i)
    \/ SelectPort("c1")
    \/ \E error \in BOOLEAN, stdout \in PortOutputs : PortsExecDone("c1", error, stdout)
    \/ PortsTimeout("c1")
    \/ \E i \in 0..MaxPick : PickPort("c1", i)
    \/ SetBaudrate("c1")
    \/ \E input \in PromptInputs \cup {Undef} : BaudrateEntered("c1", input)
    \/ Returned("c1")

SpecPrompts == InitPrompts /\ [][NextPrompts]_vars

----------------------------------------------------------------------------
(* C23: a dismissed prompt, and upload / check without a workspace folder *)

\* the board picker, the port picker or the baudrate box resolves with
\* undefined
Dismissed ==
    \/ PickBoard("c1", 0)
    \/ PickPort("c1", 0)
    \/ BaudrateEntered("c1", Undef)

\* upload or check is invoked while no workspace folder is open
InvokedWithoutWorkspace ==
    /\ ~hasWorkspace
    /\ proc["c1"].pc = "idle"
    /\ proc'["c1"].pc # "idle"
    /\ proc'["c1"].cmd \in {"upload", "check"}

\* C23: when a board, port or baudrate prompt is dismissed without a choice,
\* and when upload or check is invoked with no workspace folder, the
\* in-memory configuration and the project's configuration file stay as
\* they are; upload / check then also start no subprocess and leave the
\* output log with the lines it had.
C23_NothingChosenNothingChanged ==
    [][/\ Dismissed \/ InvokedWithoutWorkspace =>
            config' = config /\ configFile' = configFile
       /\ InvokedWithoutWorkspace =>
            /\ proc'["c1"].execs = {} /\ proc'["c1"].running = {}
            /\ proc'["c1"].pc = "done"
            /\ outputChannel' = outputChannel]_vars

\* upload has ended on the missing workspace folder, the log still holds
\* the lines of an earlier listBoards, and a board chosen earlier is still
\* the configured one
C23_Witness ==
    /\ ~hasWorkspace
    /\ proc["c1"].cmd = "upload" /\ proc["c1"].pc = "done"
    /\ "NoWorkspace" \in proc["c1"].shown
    /\ proc["c1"].execs = {}
    /\ outputChannel # <<>>
    /\ config.board = JStr("arduino:sam:due")

====
